---- MODULE Spec2Model ----
(***************************************************************************)
(* Zero-order robust optimisation (ZORO) outer loop of ZoroAcados and the  *)
(* symmetric-matrix codec of zoro_acados_utils.                            *)
(*                                                                         *)
(* Matrices are sequences of rows, vectors are sequences; entries are      *)
(* integers.  The external OCP solver, the integrator and the residual     *)
(* (GP) model are environments: every value they return is chosen from a   *)
(* small set.  Arithmetic is floating point: every sum and product is      *)
(* rounded to a significand of Precision bits (float64 has 53).            *)
(***************************************************************************)
EXTENDS Integers, Sequences, FiniteSets, TLC

\* ------------------------------------------------------------------ bounds
NStages == 2        \* horizon N of the OCP
Nx == 2             \* state dimension nx of the OCP
Nu == 1             \* input dimension nu of the OCP
MaxIterMax == 3     \* largest n_iter_max passed to solve()
MaxCalls == 2       \* number of solve() calls on one object
MaxDim == 3         \* largest n of the codec round trip
MaxEntry == 1       \* codec matrix entries range over 0..MaxEntry
Precision == 3      \* bits of the floating-point significand

\* Absent values, one per kind so that TLC can compare them with present ones.
None == <<>>                  \* an absent vector, matrix or list entry
Unset == 0 - 1                \* an unassigned integer local
NoRec == [kind |-> "none"]    \* an absent record

\* ------------------------------------------------------- linear algebra
\* Floating-point rounding of an exact result x: the nearest number with a
\* significand of Precision bits, ties to even.  Ulp(a, q) is the spacing of
\* the representable numbers around a >= 0.
Exact == 2 ^ Precision      \* integers below it are representable

RECURSIVE Ulp(_, _)
Ulp(a, q) == IF a < q * Exact THEN q ELSE Ulp(a, 2 * q)

Abs(x) == IF x < 0 THEN 0 - x ELSE x

fl(x) ==
    IF 0 - Exact < x /\ x < Exact THEN x
    ELSE LET a == Abs(x)
             q == Ulp(a, 2)
             m == a \div q
             r == a % q
             up == 2 * r > q \/ (2 * r = q /\ m % 2 = 1)
             n == (IF up THEN m + 1 ELSE m) * q
         IN  IF x < 0 THEN 0 - n ELSE n

\* f[1] + ... + f[k], accumulated from the left.
RECURSIVE SumTo(_, _)
SumTo(f, k) == IF k = 0 THEN 0 ELSE fl(SumTo(f, k - 1) + f[k])

Rows(M) == Len(M)
Cols(M) == Len(M[1])

\* Values are built entry by entry and then fixed (f @@ <<>> evaluates every
\* entry once), as numpy holds arrays.
Vec(f) == f @@ <<>>

zeros(n, m) == Vec([r \in 1..n |-> Vec([c \in 1..m |-> 0])])

eye(n) == Vec([r \in 1..n |-> Vec([c \in 1..n |-> IF r = c THEN 1 ELSE 0])])

diag(v) == Vec([r \in 1..Len(v) |-> Vec([c \in 1..Len(v) |-> IF r = c THEN v[r] ELSE 0])])

Transpose(M) ==
    LET n == Rows(M)
        m == Cols(M)
    IN  Vec([c \in 1..m |-> Vec([r \in 1..n |-> M[r][c]])])

MatMul(X, Y) ==
    LET n == Rows(X)
        k == Cols(X)
        m == Cols(Y)
    IN  Vec([r \in 1..n |-> Vec([c \in 1..m |->
            SumTo([j \in 1..k |-> fl(X[r][j] * Y[j][c])], k)])])

MatAdd(X, Y) ==
    LET n == Rows(X)
        m == Cols(X)
    IN  Vec([r \in 1..n |-> Vec([c \in 1..m |-> fl(X[r][c] + Y[r][c])])])

MatVec(X, v) ==
    LET n == Rows(X)
        k == Len(v)
    IN  Vec([r \in 1..n |-> SumTo([j \in 1..k |-> fl(X[r][j] * v[j])], k)])

VecAdd(u, v) == Vec([k \in 1..Len(u) |-> fl(u[k] + v[k])])

VecSub(u, v) == Vec([k \in 1..Len(u) |-> fl(u[k] - v[k])])

ZeroVec(n) == Vec([k \in 1..n |-> 0])

\* M[:, a-1:b]: the columns a..b of M.
ColSlice(M, a, b) ==
    LET n == Rows(M)
    IN  Vec([r \in 1..n |-> Vec([c \in 1..(b - a + 1) |-> M[r][a + c - 1]])])

IsSymmetric(M) == \A r \in 1..Rows(M) : \A c \in 1..Rows(M) : M[r][c] = M[c][r]

\* ------------------------------------------------ symmetric-matrix codec
\* np.triu_indices(n, m=n): the index pairs (i <= j) of the upper triangle,
\* row by row.
TriuRow(n, r) == Vec([t \in 1..(n - r + 1) |-> <<r, r + t - 1>>])

RECURSIVE TriuFrom(_, _)
TriuFrom(n, r) == IF r > n THEN <<>> ELSE TriuRow(n, r) \o TriuFrom(n, r + 1)

triu_indices(n) == TriuFrom(n, 1)

\* mat[i, j] = vec with index arrays: entry ij[t] takes vec[t]; a later t
\* overwrites an earlier one.
IndexPut(mat, ij, vec) ==
    Vec([r \in 1..Rows(mat) |-> Vec([c \in 1..Cols(mat) |->
        LET hits == {t \in 1..Len(ij) : ij[t] = <<r, c>>}
        IN  IF hits = {} THEN mat[r][c]
            ELSE vec[CHOOSE t \in hits : \A s \in hits : s <= t]])])

\* mat.T[i, j] = vec: mat.T is a view, so the write lands in mat[j, i].
IndexPutT(mat, ij, vec) ==
    IndexPut(mat, Vec([t \in 1..Len(ij) |-> <<ij[t][2], ij[t][1]>>]), vec)

sym_mat2vec(mat) ==
    LET ij == triu_indices(Rows(mat))
    IN  Vec([t \in 1..Len(ij) |-> mat[ij[t][1]][ij[t][2]]])

vec2sym_mat_upper_only(vec, nx) == IndexPut(zeros(nx, nx), triu_indices(nx), vec)

vec2sym_mat(vec, nx) ==
    LET ij == triu_indices(nx)
    IN  IndexPutT(IndexPut(zeros(nx, nx), ij, vec), ij, vec)

\* P_{i+1} = A P A^T + B W B^T, evaluated left to right as Python's @ does.
P_propagation(P, A, B, W) ==
    MatAdd(MatMul(MatMul(A, P), Transpose(A)), MatMul(MatMul(B, W), Transpose(B)))

\* An n-by-m array with every entry g.
Filled(n, m, g) == Vec([r \in 1..n |-> Vec([c \in 1..m |-> g])])

\* np.reshape(M, (n*m), order="F"): the columns of M one after the other.
ReshapeF(M) ==
    LET n == Rows(M)
    IN  Vec([t \in 1..(n * Cols(M)) |-> M[((t - 1) % n) + 1][((t - 1) \div n) + 1]])

\* ------------------------------------------------------------ environment
\* The integrator is a function of the state and input it is given: its
\* state Jacobian Sx is the identity at states with x[1] = 1 and upper
\* triangular elsewhere.
UpperOnes(n) == Vec([r \in 1..n |-> Vec([c \in 1..n |-> IF c >= r THEN 1 ELSE 0])])

Sx(x, u) == IF x[1] = 1 THEN eye(Len(x)) ELSE UpperOnes(Len(x))

\* Its input Jacobian Su and its next state x.
Su(x, u) == Filled(Len(x), Len(u), 1)

XNext(x, u) == Vec([k \in 1..Len(x) |-> x[k] + 2])

\* Iterates the OCP solver may hold: the states of the stages are all 1, or
\* alternate between 1 and 2; the inputs are all 1.
XIterates(N, n) ==
    {Vec([k \in 1..N |-> Vec([j \in 1..n |-> 1])]),
     Vec([k \in 1..N |-> Vec([j \in 1..n |-> 2 - (k % 2)])])}

UIterates(N, m) == {Vec([k \in 1..N |-> Vec([j \in 1..m |-> 1])])}

\* Initial covariances handed to the constructor (symmetric).
TwoOne(n) == Vec([r \in 1..n |-> Vec([c \in 1..n |-> IF r = c THEN 2 ELSE 1])])

SigmaX0Set(n) == {TwoOne(n)}

\* Outputs of one batched GP evaluation: level g gives every entry of mean,
\* mean_dy and var the value g at every stage.
GpLevels == {1}

\* Values of the precompiled constraint sensitivity d h / d sig (one
\* constraint row over the covariance vector).
VecLen(n) == ((n + 1) * n) \div 2

HSet(n) == {<<Vec([k \in 1..VecLen(n) |-> 1])>>}

\* Nominal lower bound ocp.constraints.lh of the single constraint row.
constraints_lh == <<-1>>

\* Statuses of ocp_solver.solve(): 0 is success, 1 stands for the failure
\* codes (the code only tests status != 0).
Statuses == {0, 1}
\* max(residuals) and tol_nlp: the code only compares them, and these values
\* give residual < tol, residual = tol and residual > tol.
ResidualValues == {0, 1}
Tolerances == {0, 1}

\* ------------------------------------------------------------------ state
VARIABLES
    pc,             \* position of the caller / of solve()
    call,           \* number of solve() calls started on the object
    nx,             \* self.nx
    nu,             \* self.nu
    B,              \* self.B
    Sigma_x0,       \* self.Sigma_x0
    Sigma_W,        \* self.Sigma_W
    has_gp_model,   \* self.has_gp_model
    x_hat_all,      \* self.x_hat_all[stage, :], one vector per stage
    u_hat_all,      \* self.u_hat_all[stage, :], one vector per stage
    mean,           \* self.mean[stage, :], one vector per stage
    mean_dy,        \* self.mean_dy[:, stage, :], one nw-by-(nx+nu) matrix per stage
    var,            \* self.var[stage, :], one vector per stage
    P_bar_all,      \* self.P_bar_all, index k+1 holds P[k]
    P_bar_all_vec,  \* self.P_bar_all_vec, index k+1 holds P_vec[k]
    P_bar_old_vec,  \* self.P_bar_old_vec
    tol_nlp,        \* argument of the running solve()
    n_iter_max,     \* argument of the running solve()
    i,              \* outer loop variable of solve()
    stage,          \* stage loop variable of solve()
    rti_phase,      \* option rti_phase of the OCP solver
    status,         \* local status of solve()
    max_res,        \* max(residuals) of the residuals last read
    n_iter,         \* self.solve_stats["n_iter"]
    timings_len,    \* length of every array in self.solve_stats["timings"]
    delta,          \* last dP_bar_vec of this outer iteration, with the snapshot it used
    lin,            \* linear model of the last stage of this outer iteration
    ocp_p,          \* last ocp_solver.set(stage, "p", ...) of this outer iteration
    ocp_lh,         \* last ocp_solver.constraints_set(stage, "lh", ...) of this outer iteration
    ret,            \* last value handed to the caller
    held,           \* the covariance sequence the caller last collected, and what it read in it then
    P_age,          \* history: outer iterations since P_vec[k] was computed
    old_tag,        \* history: origin of the vector in P_bar_old_vec
    prop_src,       \* history: origin of the P[k] used by the last propagation of this iteration
    iters,          \* history: outer iterations started in this solve()
    n_solves,       \* history: ocp_solver.solve() invocations in this solve()
    phases,         \* history: solver and model calls of this outer iteration, in order
    first_below,    \* history: first iteration whose residual met tol_nlp
    cpc, cn, cM, cvec, cback   \* codec round trip: position, n, M, vector, result

vars == <<pc, call, nx, nu, B, Sigma_x0, Sigma_W, has_gp_model, x_hat_all, u_hat_all, mean, mean_dy, var,
          P_bar_all, P_bar_all_vec, P_bar_old_vec, tol_nlp, n_iter_max, i, stage,
          rti_phase, status, max_res, n_iter, timings_len, delta, lin, ocp_p, ocp_lh,
          ret, held, P_age, old_tag, prop_src, iters, n_solves, phases, first_below,
          cpc, cn, cM, cvec, cback>>

objVars == <<nx, nu, B, Sigma_x0, Sigma_W, has_gp_model>>
covVars == <<P_bar_all, P_bar_all_vec, P_bar_old_vec, P_age, old_tag>>
nodeVars == <<x_hat_all, u_hat_all>>
gpVars == <<mean, mean_dy, var>>
stageVars == <<delta, lin, ocp_p, ocp_lh, prop_src>>
codecVars == <<cpc, cn, cM, cvec, cback>>

Idle == pc \in {"idle", "returned", "raised"}

\* ------------------------------------------------------------ history tags
\* A tag says when a covariance was computed: age = outer iterations started
\* since (0 this one, 1 the preceding one, 2 older), cur = in this solve().
Computed == [age |-> 0, cur |-> TRUE]

\* P[0] is set by the constructor, before every solve() and every iteration.
Constructed == [age |-> 2, cur |-> FALSE]

Older(t) == IF t = NoRec THEN NoRec ELSE [t EXCEPT !.age = IF t.age < 2 THEN t.age + 1 ELSE 2]

Earlier(t) == IF t = NoRec THEN NoRec ELSE [t EXCEPT !.cur = FALSE]

\* One call on the OCP solver, the integrator or the GP: what was called and
\* its argument (a stage, a batch size or the rti_phase in force).
Ev(what, arg) == [ev |-> what, arg |-> arg]

\* ------------------------------------------------------------ construction
\* ZoroAcados.__init__ with B = None, for every dimension, initial covariance
\* and presence of a GP model.
ObjInit ==
    /\ nx = Nx
    /\ nu = Nu
    /\ B = eye(nx)
    /\ Sigma_x0 \in SigmaX0Set(nx)
    /\ Sigma_W = eye(nx)
    /\ has_gp_model \in BOOLEAN
    /\ x_hat_all = [k \in 1..NStages |-> ZeroVec(nx)]
    /\ u_hat_all = [k \in 1..NStages |-> ZeroVec(nu)]
    /\ mean = [k \in 1..NStages |-> ZeroVec(nx)]
    /\ mean_dy = [k \in 1..NStages |-> zeros(nx, nx + nu)]
    /\ var = [k \in 1..NStages |-> ZeroVec(nx)]
    /\ P_bar_all = [k \in 1..(NStages + 1) |-> IF k = 1 THEN Sigma_x0 ELSE None]
    /\ P_bar_all_vec = [k \in 1..(NStages + 1) |-> IF k = 1 THEN sym_mat2vec(Sigma_x0) ELSE None]
    /\ P_bar_old_vec = None
    /\ n_iter = 0
    /\ timings_len = Unset
    /\ pc = "idle"
    /\ call = 0
    /\ tol_nlp = Unset /\ n_iter_max = Unset /\ i = Unset /\ stage = Unset
    /\ rti_phase = Unset /\ status = Unset /\ max_res = Unset
    /\ delta = NoRec /\ lin = NoRec /\ ocp_p = NoRec /\ ocp_lh = NoRec /\ ret = NoRec
    /\ held = NoRec
    /\ P_age = [k \in 1..(NStages + 1) |-> IF k = 1 THEN Constructed ELSE NoRec]
    /\ old_tag = NoRec /\ prop_src = NoRec
    /\ iters = 0 /\ n_solves = 0 /\ phases = <<>> /\ first_below = Unset

Init ==
    /\ ObjInit
    /\ cpc = "off" /\ cn = 0 /\ cM = <<>> /\ cvec = <<>> /\ cback = <<>>

\* ------------------------------------------------------------------ solve()
\* solve(tol_nlp, n_iter_max) up to the head of the outer loop:
\* init_solve_stats and i = 0.
SolveBegin ==
    /\ Idle
    /\ call < MaxCalls
    /\ \E tol \in Tolerances, nmax \in 1..MaxIterMax :
         /\ tol_nlp' = tol
         /\ n_iter_max' = nmax
         /\ timings_len' = nmax
    /\ n_iter' = 0
    /\ call' = call + 1
    /\ i' = 0
    /\ pc' = "query"
    /\ status' = Unset /\ max_res' = Unset /\ stage' = Unset
    /\ delta' = NoRec /\ lin' = NoRec /\ ocp_p' = NoRec /\ ocp_lh' = NoRec /\ prop_src' = NoRec
    /\ ret' = [kind |-> "running"]
    /\ P_age' = [k \in 1..(NStages + 1) |-> Earlier(P_age[k])]
    /\ old_tag' = Earlier(old_tag)
    /\ iters' = 0 /\ n_solves' = 0 /\ phases' = <<>> /\ first_below' = Unset
    /\ UNCHANGED <<objVars, nodeVars, gpVars, P_bar_all, P_bar_all_vec, P_bar_old_vec,
                   rti_phase, held, codecVars>>

\* Query nodes: rti_phase 1 and the current iterate of every stage.
QueryNodes ==
    /\ pc = "query"
    /\ rti_phase' = 1
    /\ pc' = "gp"
    /\ iters' = iters + 1
    /\ phases' = <<Ev("query", NStages)>>
    /\ P_age' = [k \in 1..(NStages + 1) |-> Older(P_age[k])]
    /\ old_tag' = Older(old_tag)
    /\ \E xs \in XIterates(NStages, nx), us \in UIterates(NStages, nu) :
         /\ x_hat_all' = xs
         /\ u_hat_all' = us
    /\ delta' = NoRec /\ lin' = NoRec /\ ocp_p' = NoRec /\ ocp_lh' = NoRec /\ prop_src' = NoRec
    /\ UNCHANGED <<call, objVars, gpVars, P_bar_all, P_bar_all_vec, P_bar_old_vec,
                   tol_nlp, n_iter_max, i, stage, status, max_res, n_iter,
                   timings_len, ret, n_solves, first_below, held, codecVars>>

\* Whether the GP is evaluated in an outer iteration.
GpQueriedAlways(has_gp) == TRUE

GpQueried(has_gp) == has_gp

\* GP sensitivities: one batched evaluation, only with a GP model.
GpSensitivities ==
    /\ pc = "gp"
    /\ IF GpQueried(has_gp_model)
       THEN \E g \in GpLevels :
              /\ mean' = [k \in 1..NStages |-> Vec([j \in 1..nx |-> g])]
              /\ mean_dy' = [k \in 1..NStages |-> Filled(nx, nx + nu, g)]
              /\ var' = [k \in 1..NStages |-> Vec([j \in 1..nx |-> g])]
              /\ phases' = Append(phases, Ev("gp", Len(x_hat_all)))
       ELSE UNCHANGED <<gpVars, phases>>
    /\ stage' = 0
    /\ pc' = "stage"
    /\ UNCHANGED <<call, objVars, nodeVars, covVars, tol_nlp, n_iter_max, i, rti_phase, status,
                   max_res, n_iter, timings_len, stageVars, ret, iters, n_solves,
                   first_below, held, codecVars>>

\* Index of the covariance the propagation of a stage reads.
PropSourceFirst(s) == 0

PropSource(s) == s

\* Index of the covariance the propagation of a stage writes.
PropTargetSame(s) == s

PropTarget(s) == s + 1

\* Stage whose covariance vector goes into the parameter vector of a stage.
ParamStageNext(s) == s + 1

ParamStage(s) == s

\* dP_bar_vec of a stage: zero without a snapshot, else current minus snapshot.
DeltaPBar(old, cur, n) == IF old = None THEN ZeroVec(VecLen(n)) ELSE VecSub(cur, old)

\* tightening = htj_sig @ dP_bar_vec
TighteningAbsolute(H, dP, Pvec) == MatVec(H, Pvec)

Tightening(H, dP, Pvec) == MatVec(H, dP)

\* for stage in range(N): whether another stage follows stage s.
MoreStagesShort(s) == s + 2 < NStages

MoreStages(s) == s + 1 < NStages

\* One pass of the stage loop body: linear model, delta, propagation,
\* parameters and tightened bound of stage `stage`.
UpdateStage ==
    /\ pc = "stage"
    /\ \E htj_sig \in HSet(nx) :
         LET A_nom == Sx(x_hat_all[stage + 1], u_hat_all[stage + 1])
             B_nom == Su(x_hat_all[stage + 1], u_hat_all[stage + 1])
             x_nom == XNext(x_hat_all[stage + 1], u_hat_all[stage + 1])
             src == PropSource(stage) + 1
             dst == PropTarget(stage) + 1
             A_total == MatAdd(A_nom, MatMul(B, ColSlice(mean_dy[stage + 1], 1, nx)))
             B_total == MatAdd(B_nom, MatMul(B, ColSlice(mean_dy[stage + 1], nx + 1, nx + nu)))
             f_hat == VecSub(VecSub(VecAdd(x_nom, MatVec(B, mean[stage + 1])),
                                    MatVec(A_total, x_hat_all[stage + 1])),
                             MatVec(B_total, u_hat_all[stage + 1]))
             dP_bar_vec == DeltaPBar(P_bar_old_vec, P_bar_all_vec[stage + 1], nx)
             P_next == P_propagation(P_bar_all[src], A_total, B,
                                     MatAdd(Sigma_W, diag(var[stage + 1])))
             vec_after == [P_bar_all_vec EXCEPT ![dst] = sym_mat2vec(P_next)]
             tightening == Tightening(htj_sig, dP_bar_vec, vec_after[stage + 1])
             lh == VecAdd(constraints_lh, tightening)
         IN  /\ P_bar_all' = [P_bar_all EXCEPT ![dst] = P_next]
             /\ P_bar_old_vec' = P_bar_all_vec[dst]
             /\ P_bar_all_vec' = vec_after
             /\ old_tag' = IF P_bar_all_vec[dst] = None THEN NoRec
                           ELSE [stage |-> dst - 1, age |-> P_age[dst].age, cur |-> P_age[dst].cur]
             /\ P_age' = [P_age EXCEPT ![dst] = Computed]
             /\ prop_src' = [stage |-> src - 1, tag |-> P_age[src], A |-> A_total,
                             into |-> dst - 1]
             /\ delta' = [stage |-> stage, vec |-> dP_bar_vec, snap |-> old_tag,
                          tightening |-> tightening]
             /\ lin' = [stage |-> stage, A_nom |-> A_nom, B_nom |-> B_nom, x_nom |-> x_nom,
                        A_total |-> A_total, B_total |-> B_total, f_hat |-> f_hat]
             /\ ocp_p' = [stage |-> stage, A |-> ReshapeF(A_total), B |-> ReshapeF(B_total),
                          f |-> f_hat, P |-> vec_after[ParamStage(stage) + 1]]
             /\ ocp_lh' = [stage |-> stage, lh |-> lh]
             /\ phases' = phases \o <<Ev("p", stage), Ev("lh", stage)>>
    /\ IF MoreStages(stage)
       THEN stage' = stage + 1 /\ pc' = "stage"
       ELSE stage' = stage /\ pc' = "prepare"
    /\ UNCHANGED <<call, objVars, nodeVars, gpVars, tol_nlp, n_iter_max, i, rti_phase, status,
                   max_res, n_iter, timings_len, ret, iters, n_solves, first_below,
                   held, codecVars>>

\* Phase 1: the preparation solve; its status is kept in `status`.
PhaseOne ==
    /\ pc = "prepare"
    /\ \E st \in Statuses : status' = st
    /\ n_solves' = n_solves + 1
    /\ phases' = Append(phases, Ev("solve", rti_phase))
    /\ pc' = "feedback"
    /\ UNCHANGED <<call, objVars, nodeVars, gpVars, covVars, tol_nlp, n_iter_max, i, stage,
                   rti_phase, max_res, n_iter, timings_len, stageVars, ret, iters,
                   first_below, held, codecVars>>

\* Solve QP: rti_phase 2 and the feedback solve, whose status replaces the
\* preparation status.
SolveQP ==
    /\ pc = "feedback"
    /\ rti_phase' = 2
    /\ \E st \in Statuses : status' = st
    /\ n_solves' = n_solves + 1
    /\ phases' = Append(phases, Ev("solve", rti_phase'))
    /\ pc' = "residuals"
    /\ UNCHANGED <<call, objVars, nodeVars, gpVars, covVars, tol_nlp, n_iter_max, i, stage,
                   max_res, n_iter, timings_len, stageVars, ret, iters, first_below,
                   held, codecVars>>

\* residuals = ocp_solver.get_residuals(); max_res is max(residuals).
GetResiduals ==
    /\ pc = "residuals"
    /\ \E m \in ResidualValues :
         /\ max_res' = m
         /\ first_below' = IF first_below = Unset /\ m < tol_nlp THEN i + 1 ELSE first_below
    /\ phases' = Append(phases, Ev("residuals", NStages))
    /\ pc' = "check"
    /\ UNCHANGED <<call, objVars, nodeVars, gpVars, covVars, tol_nlp, n_iter_max, i, stage,
                   rti_phase, status, n_iter, timings_len, stageVars, ret, iters,
                   n_solves, held, codecVars>>

\* The end of the outer loop body: raise on a bad status, break on
\* convergence, else the next iteration or the end of range(n_iter_max).
LoopDecisionResidualFirst(st, res, tol, it, nmax) ==
    IF res < tol THEN "break"
    ELSE IF st # 0 THEN "raise"
    ELSE IF it + 1 < nmax THEN "continue" ELSE "exhausted"

LoopDecisionOneMore(st, res, tol, it, nmax) ==
    IF st # 0 THEN "raise"
    ELSE IF res < tol THEN "break"
    ELSE IF it + 1 <= nmax THEN "continue" ELSE "exhausted"

LoopDecisionAtMost(st, res, tol, it, nmax) ==
    IF st # 0 THEN "raise"
    ELSE IF res <= tol THEN "break"
    ELSE IF it + 1 < nmax THEN "continue" ELSE "exhausted"

LoopDecision(st, res, tol, it, nmax) ==
    IF st # 0 THEN "raise"
    ELSE IF res < tol THEN "break"
    ELSE IF it + 1 < nmax THEN "continue" ELSE "exhausted"

CheckTermination ==
    /\ pc = "check"
    /\ LET d == LoopDecision(status, max_res, tol_nlp, i, n_iter_max)
       IN  CASE d = "raise" ->
                  /\ pc' = "raised" /\ ret' = [kind |-> "Exception"]
                  /\ UNCHANGED <<i, n_iter>>
             [] d = "continue" ->
                  /\ pc' = "query" /\ i' = i + 1
                  /\ UNCHANGED <<ret, n_iter>>
             [] OTHER ->
                  /\ pc' = "returned" /\ ret' = [kind |-> "None"]
                  /\ n_iter' = i + 1
                  /\ UNCHANGED i
    /\ UNCHANGED <<call, objVars, nodeVars, gpVars, covVars, tol_nlp, n_iter_max, stage,
                   rti_phase, status, max_res, timings_len, stageVars, iters,
                   n_solves, phases, first_below, held, codecVars>>

\* ----------------------------------------------------------------- getters
\* A list object: the list self.P_bar_all of the solver object (its items
\* are those of P_bar_all), or a list with items of its own.
SelfList == [obj |-> "self.P_bar_all", items |-> None]

\* The items a list object holds now.
Deref(l) == IF l.obj = "self.P_bar_all" THEN P_bar_all ELSE l.items

\* The covariance sequence get_solution() returns: the list itself.
SolutionP(P) == SelfList

\* get_solution(): X, U and the list self.P_bar_all itself.
get_solution ==
    /\ Idle
    /\ ret' = [kind |-> "solution", P |-> SolutionP(P_bar_all)]
    /\ held' = [call |-> call, P |-> SolutionP(P_bar_all), seen |-> P_bar_all]
    /\ UNCHANGED <<pc, call, objVars, nodeVars, gpVars, covVars, tol_nlp, n_iter_max, i, stage,
                   rti_phase, status, max_res, n_iter, timings_len, stageVars, iters,
                   n_solves, phases, first_below, codecVars>>

\* get_solve_stats(): cuts every timing array to n_iter entries; before the
\* first solve() the timings are floats and the slice raises TypeError.
get_solve_stats ==
    /\ Idle
    /\ IF timings_len = Unset
       THEN ret' = [kind |-> "TypeError"] /\ UNCHANGED <<timings_len, held>>
       ELSE /\ timings_len' = IF n_iter < timings_len THEN n_iter ELSE timings_len
            /\ ret' = [kind |-> "stats", n_iter |-> n_iter, sol_P |-> SolutionP(P_bar_all)]
            /\ held' = [call |-> call, P |-> SolutionP(P_bar_all), seen |-> P_bar_all]
    /\ UNCHANGED <<pc, call, objVars, nodeVars, gpVars, covVars, tol_nlp, n_iter_max, i, stage,
                   rti_phase, status, max_res, n_iter, stageVars, iters, n_solves,
                   phases, first_below, codecVars>>

SolveStep ==
    \/ QueryNodes
    \/ GpSensitivities
    \/ UpdateStage
    \/ PhaseOne
    \/ SolveQP
    \/ GetResiduals
    \/ CheckTermination

Next ==
    \/ SolveBegin
    \/ SolveStep
    \/ get_solution
    \/ get_solve_stats

Spec == Init /\ [][Next]_vars

\* ------------------------------------------------- codec round trip (C10)
\* Position of entry (r, c), r <= c, in the row-major upper triangle.
TriPos(n, r, c) == (r - 1) * n - ((r - 1) * (r - 2)) \div 2 + (c - r) + 1

SymFromUpper(n, u) ==
    Vec([r \in 1..n |-> Vec([c \in 1..n |->
        IF r <= c THEN u[TriPos(n, r, c)] ELSE u[TriPos(n, c, r)]])])

SymMatrices(n) == {SymFromUpper(n, u) : u \in [1..VecLen(n) -> 0..MaxEntry]}

CodecInit ==
    /\ ObjInit
    /\ has_gp_model = FALSE
    /\ cpc = "start"
    /\ cn \in 1..MaxDim
    /\ cM \in SymMatrices(cn)
    /\ cvec = <<>> /\ cback = <<>>

solveVars == <<pc, call, objVars, nodeVars, gpVars, covVars, tol_nlp, n_iter_max, i, stage,
               rti_phase, status, max_res, n_iter, timings_len, stageVars, ret,
               iters, n_solves, phases, first_below, held>>

CodecFlatten ==
    /\ cpc = "start"
    /\ cvec' = sym_mat2vec(cM)
    /\ cpc' = "flat"
    /\ UNCHANGED <<cn, cM, cback, solveVars>>

CodecUnflatten ==
    /\ cpc = "flat"
    /\ cback' = vec2sym_mat(cvec, cn)
    /\ cpc' = "done"
    /\ UNCHANGED <<cn, cM, cvec, solveVars>>

CodecNext == CodecFlatten \/ CodecUnflatten

CodecSpec == CodecInit /\ [][CodecNext]_vars

\* ------------------------------------------------------------------ claims
Zero == ZeroVec(VecLen(nx))

StageDone == delta # NoRec

\* C1: at every stage k of every outer iteration the delta is P_vec[k] of
\* this iteration minus P_vec[k] of the immediately preceding outer iteration,
\* or the zero vector when no snapshot exists; the snapshot used is never a
\* covariance of another stage or of an older iteration.
C1_DeltaAgainstPrecedingIteration ==
    StageDone =>
        IF delta.snap = NoRec
        THEN delta.vec = Zero
        ELSE /\ delta.snap.stage = delta.stage
             /\ delta.snap.age = 1

\* C2: once the feedback solve has returned a non-zero status, solve() raises
\* in that outer iteration: no further outer iteration starts and the solver
\* is not invoked again, whatever the residuals are.
C2_FeedbackFailureRaises ==
    [][(pc \in {"residuals", "check"} /\ status # 0) =>
         /\ n_solves' = n_solves
         /\ iters' = iters
         /\ pc' \in {pc, "check", "raised"}
         /\ (pc = "check" /\ pc' # pc => pc' = "raised" /\ ret'.kind = "Exception")]_vars

C2_Witness == pc = "raised" /\ status # 0 /\ max_res < tol_nlp /\ i + 1 < n_iter_max

\* C3: the previous-covariance snapshot is cleared at the start of every
\* solve() call: at the first stage of a call it is absent and the delta is
\* zero, and no delta uses a covariance vector computed in an earlier call.
C3_SnapshotClearedPerCall ==
    /\ (pc = "stage" /\ i = 0 /\ stage = 0 => P_bar_old_vec = None)
    /\ (StageDone /\ i = 0 /\ delta.stage = 0 => delta.snap = NoRec /\ delta.vec = Zero)
    /\ (StageDone /\ delta.snap # NoRec => delta.snap.cur)

\* What the caller can see of a finished solve(): whether it raised, and the
\* n_iter of the solve statistics (the return value is always None).
Outcome == [raised |-> pc = "raised", n_iter |-> n_iter]

\* The outcome of a solve() that executed all n_iter_max iterations without
\* meeting the tolerance.
ExhaustedOutcome(nmax) == [raised |-> FALSE, n_iter |-> nmax]

\* C4: a solve() that returns having converged (maximum residual of the last
\* executed iteration below the tolerance) has a caller-visible outcome that
\* differs from the outcome of exhausting n_iter_max iterations.
C4_ConvergenceDistinctFromExhaustion ==
    (pc = "returned" /\ max_res < tol_nlp) => Outcome # ExhaustedOutcome(n_iter_max)

\* Steps a running solve() still has to take at most: whole iterations not
\* yet started, plus the rest of the iteration under way.
IterSteps == NStages + 6

StepsLeft ==
    CASE Idle -> 0
      [] pc = "query" -> (n_iter_max - iters) * IterSteps
      [] pc = "gp" -> (n_iter_max - iters) * IterSteps + NStages + 5
      [] pc = "stage" -> (n_iter_max - iters) * IterSteps + NStages + 4 - stage
      [] pc = "prepare" -> (n_iter_max - iters) * IterSteps + 4
      [] pc = "feedback" -> (n_iter_max - iters) * IterSteps + 3
      [] pc = "residuals" -> (n_iter_max - iters) * IterSteps + 2
      [] pc = "check" -> (n_iter_max - iters) * IterSteps + 1

\* Positions of a running solve(); each of them has exactly one step, whose
\* guard is the position alone.
Positions == {"query", "gp", "stage", "prepare", "feedback", "residuals", "check"}

\* C5: every solve() call with n_iter_max >= 1 terminates, by returning or by
\* raising, after at most n_iter_max outer iterations: a running call never
\* starts more than n_iter_max iterations, is always at a position that has a
\* next step, and every step brings it closer to its end.
C5_TerminatesWithinCap ==
    /\ [](call > 0 => iters <= n_iter_max /\ n_iter_max >= 1)
    /\ [](~Idle => pc \in Positions /\ (pc = "stage" => stage \in 0..(NStages - 1)))
    /\ [][~Idle => (StepsLeft' < StepsLeft /\ StepsLeft' >= 0)]_vars

C5_Witness == pc = "returned" /\ n_iter_max >= 2 /\ iters = n_iter_max

\* C6: solve() raises only on a non-zero feedback status; otherwise it returns
\* after exactly j outer iterations, j the first iteration whose maximum
\* residual is below tol_nlp or n_iter_max when there is none, and
\* get_solve_stats() reports n_iter = j.
FirstConverged == IF first_below # Unset THEN first_below ELSE n_iter_max

C6_IterationCount ==
    /\ (pc = "raised" => status # 0)
    /\ (pc = "returned" =>
          /\ iters = FirstConverged
          /\ n_iter = FirstConverged
          /\ (ret.kind = "stats" => ret.n_iter = FirstConverged))

C6_Witness ==
    /\ pc = "returned" /\ n_iter_max = 1 /\ first_below = Unset
    /\ ret.kind = "stats" /\ ret.n_iter = 1

\* C7: P[0] equals Sigma_x0 and P_vec[0] its flattening in every reachable
\* state.
C7_InitialCovarianceFixed ==
    /\ P_bar_all[1] = Sigma_x0
    /\ P_bar_all_vec[1] = sym_mat2vec(Sigma_x0)
    /\ Sigma_x0 \in SigmaX0Set(nx)

C7_Witness == call = 2 /\ pc = "returned" /\ i >= 1 /\ ret.kind = "stats"

\* C8: within an outer iteration the stages are processed in the order
\* 0, 1, ..., N-1, and P[k+1] is computed from the P[k] produced earlier in
\* the same outer iteration (k >= 1) or from Sigma_x0 (k = 0).
C8_StageOrder ==
    /\ (pc = "stage" /\ stage = 0 => ~StageDone)
    /\ (pc = "stage" /\ stage > 0 => StageDone /\ delta.stage = stage - 1)
    /\ (pc \in {"prepare", "feedback", "residuals", "check"} =>
          StageDone /\ delta.stage = NStages - 1)
    /\ (StageDone =>
          /\ prop_src.stage = delta.stage
          /\ prop_src.into = delta.stage + 1
          /\ \A k \in 1..(delta.stage + 1) : P_age[k + 1] = Computed
          /\ IF delta.stage = 0
             THEN prop_src.tag = Constructed /\ P_bar_all[1] = Sigma_x0
             ELSE prop_src.tag = Computed
          /\ P_bar_all[delta.stage + 2] =
               P_propagation(P_bar_all[delta.stage + 1], prop_src.A, B,
                             MatAdd(Sigma_W, diag(var[delta.stage + 1]))))

C8_Witness == pc = "prepare" /\ i >= 1 /\ prop_src.stage = NStages - 1 /\ NStages >= 2

\* C9: on the first stage of the first outer iteration of the first solve()
\* call the delta is the zero vector, the tightening is 0 and the lh written
\* to the solver is the nominal lh.
FirstStageEver == call = 1 /\ i = 0 /\ StageDone /\ delta.stage = 0

C9_FirstStageUntightened ==
    FirstStageEver =>
        /\ delta.snap = NoRec
        /\ delta.vec = Zero
        /\ delta.tightening = ZeroVec(Len(constraints_lh))
        /\ ocp_lh = [stage |-> 0, lh |-> constraints_lh]

C9_Witness == FirstStageEver /\ ocp_lh # NoRec /\ ~Idle

Flattens(v, M) ==
    /\ Len(v) = VecLen(Rows(M))
    /\ \A r \in 1..Rows(M) : \A c \in r..Rows(M) : v[TriPos(Rows(M), r, c)] = M[r][c]

CovSet == {k \in 1..(NStages + 1) : P_bar_all[k] # None}

C12_ZeroResidualModel ==
    ~has_gp_model =>
        /\ \A k \in 1..NStages :
              /\ mean[k] = ZeroVec(nx)
              /\ mean_dy[k] = zeros(nx, nx + nu)
              /\ var[k] = ZeroVec(nx)
        /\ (lin # NoRec =>
              /\ lin.A_total = lin.A_nom
              /\ lin.B_total = lin.B_nom
              /\ lin.f_hat = VecSub(VecSub(lin.x_nom, MatVec(lin.A_nom, x_hat_all[lin.stage + 1])),
                                     MatVec(lin.B_nom, u_hat_all[lin.stage + 1]))
              /\ ocp_p.A = ReshapeF(lin.A_nom)
              /\ ocp_p.B = ReshapeF(lin.B_nom)
              /\ ocp_p.f = lin.f_hat)

C12_Witness ==
    /\ ~has_gp_model /\ call = 2 /\ i >= 1 /\ lin # NoRec /\ lin.stage = NStages - 1
    /\ lin.A_nom # eye(nx) /\ lin.f_hat # lin.x_nom

\* Position of a call in the order QUERY, batch evaluation, per-stage writes,
\* preparation solve, feedback solve, residual check.
Rank(e) ==
    CASE e.ev = "query" -> 1
      [] e.ev = "gp" -> 2
      [] e.ev \in {"p", "lh"} -> 3
      [] e.ev = "solve" /\ e.arg = 1 -> 4
      [] e.ev = "solve" /\ e.arg = 2 -> 5
      [] e.ev = "residuals" -> 6
      [] OTHER -> 0

Before(a, what, arg) == \E b \in 1..(a - 1) : phases[b] = Ev(what, arg)

\* C13: in every outer iteration the calls occur in the order QUERY, batch
\* evaluation of the residual model (at most once, over all N stages),
\* per-stage writes, preparation solve, feedback solve, residual check; the
\* preparation solve comes after p and lh of all N stages have been written
\* in that iteration, the feedback solve after the preparation solve and the
\* residuals are read after the feedback solve.
C13_PhaseOrder ==
    /\ (~Idle /\ pc # "query" => phases # <<>>)
    /\ \A a \in DOMAIN phases :
          /\ Rank(phases[a]) >= 1
          /\ (a = 1) = (phases[a].ev = "query")
          /\ \A b \in DOMAIN phases :
                a < b => /\ Rank(phases[a]) <= Rank(phases[b])
                         /\ (Rank(phases[a]) = Rank(phases[b]) => Rank(phases[a]) = 3)
          /\ (phases[a].ev = "gp" => has_gp_model /\ phases[a].arg = NStages)
          /\ (phases[a] = Ev("solve", 1) =>
                \A k \in 0..(NStages - 1) : Before(a, "p", k) /\ Before(a, "lh", k))
          /\ (phases[a] = Ev("solve", 2) => Before(a, "solve", 1))
          /\ (phases[a].ev = "residuals" => Before(a, "solve", 2))
    /\ (pc \in {"check", "returned", "raised"} /\ call > 0 =>
          /\ \E a \in DOMAIN phases : phases[a].ev = "residuals"
          /\ has_gp_model => \E a \in DOMAIN phases : phases[a].ev = "gp")

C13_Witness ==
    /\ pc = "check" /\ i >= 1 /\ has_gp_model
    /\ Len(phases) = 2 * NStages + 5

\* C14: a covariance sequence handed to the caller by get_solution() or in
\* the sol_P field of get_solve_stats() still holds, during and after every
\* later solve() call, the covariances the caller read in it when it was
\* handed over after a solve() call.
C14_ReturnedCovariancesKept ==
    (held # NoRec /\ held.call >= 1) => Deref(held.P) = held.seen

=============================================================================
